---- MODULE Spec2Model ----
(***************************************************************************)
(* ymldiff: semantic comparison of two YAML files (src/main.go).           *)
(*                                                                         *)
(* Go values are modelled as tagged records, the tag k being the dynamic   *)
(* type reflect.TypeOf reports.  Go strings are byte sequences, so that    *)
(* the byte-wise order of < on strings and the text fmt.Sprintf("%v")      *)
(* produces can be computed.  A panic of the Go runtime is the value       *)
(* Panic, which every caller propagates.                                   *)
(***************************************************************************)
EXTENDS Integers, Sequences, FiniteSets, TLC

(***************************************************************************)
(* String literals of the source, as bytes.                                *)
(***************************************************************************)
S_empty == <<>>
S_name == <<110, 97, 109, 101>>
S_key == <<107, 101, 121>>
S_id == <<105, 100>>
S_v == <<118>>
S_1 == <<49>>
S_z == <<122>>
S_nil == <<60, 110, 105, 108, 62>>
S_NaN == <<78, 97, 78>>
S_true == <<116, 114, 117, 101>>
S_false == <<102, 97, 108, 115, 101>>
S_mapOpen == <<109, 97, 112, 91>>
S_open == <<91>>
S_close == <<93>>
S_space == <<32>>
S_colon == <<58>>
S_dot == <<46>>
S_minus == <<45>>

(***************************************************************************)
(* interface{} values.  nil is both YAML null and "no document".           *)
(***************************************************************************)
Nil == [k |-> "nil"]
IntV(n) == [k |-> "int", i |-> n]
StrV(s) == [k |-> "string", s |-> s]
BoolV(b) == [k |-> "bool", b |-> b]
NaN == [k |-> "float64", f |-> "NaN"]
MapV(m) == [k |-> "map", m |-> m]
SliceV(e) == [k |-> "slice", e |-> e]
Panic == [k |-> "panic"]

\* Go's < on strings: byte-wise lexicographic order.
RECURSIVE StrLess(_, _)
StrLess(a, b) ==
  IF Len(b) = 0 THEN FALSE
  ELSE IF Len(a) = 0 THEN TRUE
  ELSE IF a[1] # b[1] THEN a[1] < b[1]
  ELSE StrLess(Tail(a), Tail(b))

\* strconv.Itoa, and %v of an int.
RECURSIVE Itoa(_)
Itoa(n) ==
  IF n < 0 THEN S_minus \o Itoa(0 - n)
  ELSE IF n < 10 THEN <<48 + n>>
  ELSE Itoa(n \div 10) \o <<48 + (n % 10)>>

\* fmt prints a map with its keys sorted (internal/fmtsort); the keys of the
\* model are strings, which fmtsort orders byte-wise.
KeyLess(x, y) == StrLess(x.s, y.s)

RECURSIVE SortKeys(_)
SortKeys(S) ==
  IF S = {} THEN <<>>
  ELSE LET mn == CHOOSE x \in S : \A y \in S \ {x} : KeyLess(x, y)
       IN <<mn>> \o SortKeys(S \ {mn})

\* fmt.Sprintf("%v", v)
RECURSIVE SprintfV(_)
RECURSIVE SprintfElems(_)
RECURSIVE SprintfEntries(_, _)
SprintfV(v) ==
  CASE v.k = "nil" -> S_nil
    [] v.k = "int" -> Itoa(v.i)
    [] v.k = "string" -> v.s
    [] v.k = "bool" -> (IF v.b THEN S_true ELSE S_false)
    [] v.k = "float64" -> S_NaN
    [] v.k = "slice" -> S_open \o SprintfElems(v.e) \o S_close
    [] v.k = "map" -> S_mapOpen \o SprintfEntries(v.m, SortKeys(DOMAIN v.m)) \o S_close

SprintfElems(e) ==
  IF Len(e) = 0 THEN <<>>
  ELSE IF Len(e) = 1 THEN SprintfV(e[1])
  ELSE SprintfV(e[1]) \o S_space \o SprintfElems(Tail(e))

SprintfEntries(m, keys) ==
  IF Len(keys) = 0 THEN <<>>
  ELSE LET entry == SprintfV(keys[1]) \o S_colon \o SprintfV(m[keys[1]])
       IN IF Len(keys) = 1 THEN entry
          ELSE entry \o S_space \o SprintfEntries(m, Tail(keys))

(***************************************************************************)
(* sort.Slice.  For fewer than 13 elements Go's pdqsort is the insertion   *)
(* sort below (stable); every slice of the model is shorter.  The items    *)
(* are pairs <<sort key, element>>, the less function being < on the keys. *)
(***************************************************************************)
Swap(s, a, b) == [s EXCEPT ![a] = s[b], ![b] = s[a]]

RECURSIVE InsertLeft(_, _)
InsertLeft(s, j) ==
  IF j > 1 /\ StrLess(s[j][1], s[j - 1][1])
  THEN InsertLeft(Swap(s, j, j - 1), j - 1)
  ELSE s

RECURSIVE InsertionSortFrom(_, _)
InsertionSortFrom(s, i) ==
  IF i > Len(s) THEN s ELSE InsertionSortFrom(InsertLeft(s, i), i + 1)

\* Mutant of sortSlice: the elements stay in the order given.
sortSliceKeepsOrder(pairs) == [i \in 1..Len(pairs) |-> pairs[i][2]]

sortSlice(pairs) ==
  LET sorted == InsertionSortFrom(pairs, 2)
  IN [i \in 1..Len(pairs) |-> sorted[i][2]]

\* _, has := m["name"]
HasKey(m, s) == StrV(s) \in DOMAIN m

\* isSliceOfDictsWithIds: "true", "false", or "panic" when reflect.TypeOf(item)
\* is nil (a nil element) and .Kind() is called on it.
RECURSIVE isSliceLoop(_, _)
isSliceLoop(slice, i) ==
  IF i > Len(slice) THEN "false"
  ELSE IF slice[i].k = "nil" THEN "panic"
  ELSE IF slice[i].k # "map" THEN "false"
  ELSE IF HasKey(slice[i].m, S_name) \/ HasKey(slice[i].m, S_key)
            \/ HasKey(slice[i].m, S_id) THEN "true"
  ELSE isSliceLoop(slice, i + 1)

isSliceOfDictsWithIds(slice) ==
  IF Len(slice) = 0 THEN "false" ELSE isSliceLoop(slice, 1)

\* normalizeValue.  The sort of the map keys (lines 398-406) only fixes the order
\* in which the entries are inserted into the new Go map, which has no order.
RECURSIVE normalizeValue(_)
normalizeValue(v) ==
  IF v.k = "nil" THEN v
  ELSE IF v.k = "map" THEN
    LET normalized == [key \in DOMAIN v.m |-> normalizeValue(v.m[key])]
    IN IF \E key \in DOMAIN v.m : normalized[key].k = "panic" THEN Panic
       ELSE MapV(normalized)
  ELSE IF v.k = "slice" THEN
    LET elements == [i \in 1..Len(v.e) |-> normalizeValue(v.e[i])]
    IN IF \E i \in 1..Len(v.e) : elements[i].k = "panic" THEN Panic
       ELSE LET ids == isSliceOfDictsWithIds(elements)
            IN IF ids = "panic" THEN Panic
               ELSE IF ids = "false"
                 THEN SliceV(sortSlice([i \in 1..Len(v.e) |->
                                          <<SprintfV(elements[i]), elements[i]>>]))
               ELSE SliceV(elements)
  ELSE v

(***************************************************************************)
(* reflect.DeepEqual on two separately parsed trees (the same-object       *)
(* shortcut of maps and slices never applies to them).  Float values are   *)
(* compared with ==, under which NaN differs from itself.                  *)
(***************************************************************************)
RECURSIVE DeepEqual(_, _)
DeepEqual(a, b) ==
  IF a.k # b.k THEN FALSE
  ELSE CASE a.k = "map" ->
              /\ DOMAIN a.m = DOMAIN b.m
              /\ \A key \in DOMAIN a.m : DeepEqual(a.m[key], b.m[key])
         [] a.k = "slice" ->
              /\ Len(a.e) = Len(b.e)
              /\ \A i \in 1..Len(a.e) : DeepEqual(a.e[i], b.e[i])
         [] a.k = "float64" -> a.f # "NaN" /\ a = b
         [] OTHER -> a = b

\* Change, and the outcome of a call that returns []Change or panics.
Change(type, path, oldValue, newValue) ==
  [Type |-> type, Path |-> path, OldValue |-> oldValue, NewValue |-> newValue]
Returned(cs) == [panicked |-> FALSE, changes |-> cs]
Panicked == [panicked |-> TRUE, changes |-> <<>>]
\* changes = append(changes, subChanges...)
AppendChanges(r1, r2) ==
  IF r1.panicked \/ r2.panicked THEN Panicked
  ELSE Returned(r1.changes \o r2.changes)

\* The identifier of a record: the first of name, key, id it has.
HasId(m) == HasKey(m, S_name) \/ HasKey(m, S_key) \/ HasKey(m, S_id)
\* Mutant of IdOf: the priority of the identifier fields reversed.
IdOfIdFirst(m) ==
  IF HasKey(m, S_id) THEN SprintfV(m[StrV(S_id)])
  ELSE IF HasKey(m, S_key) THEN SprintfV(m[StrV(S_key)])
  ELSE SprintfV(m[StrV(S_name)])
IdOf(m) ==
  IF HasKey(m, S_name) THEN SprintfV(m[StrV(S_name)])
  ELSE IF HasKey(m, S_key) THEN SprintfV(m[StrV(S_key)])
  ELSE SprintfV(m[StrV(S_id)])

\* Mutant of groupById: the records are keyed by their position, not by their
\* identifier.
RECURSIVE groupByIndex(_, _)
groupByIndex(slice, n) ==
  IF n = 0 THEN [x \in {} |-> Nil]
  ELSE LET prev == groupByIndex(slice, n - 1)
           item == slice[n]
       IN IF item.k = "map" /\ HasId(item.m)
          THEN [x \in DOMAIN prev \cup {Itoa(n - 1)} |->
                  IF x = Itoa(n - 1) THEN item ELSE prev[x]]
          ELSE prev

\* Mutant of groupById: the first record with an identifier is kept, a later
\* one with the same identifier is dropped.
RECURSIVE groupByIdKeepFirst(_, _)
groupByIdKeepFirst(slice, n) ==
  IF n = 0 THEN [x \in {} |-> Nil]
  ELSE LET prev == groupByIdKeepFirst(slice, n - 1)
           item == slice[n]
       IN IF item.k = "map" /\ HasId(item.m) /\ IdOf(item.m) \notin DOMAIN prev
          THEN [x \in DOMAIN prev \cup {IdOf(item.m)} |->
                  IF x = IdOf(item.m) THEN item ELSE prev[x]]
          ELSE prev

\* oldMap / newMap of diffSliceOfDicts after the first n items: a later item
\* overwrites an earlier one with the same identifier.
RECURSIVE groupById(_, _)
groupById(slice, n) ==
  IF n = 0 THEN [x \in {} |-> Nil]
  ELSE LET prev == groupById(slice, n - 1)
           item == slice[n]
       IN IF item.k = "map" /\ HasId(item.m)
          THEN [x \in DOMAIN prev \cup {IdOf(item.m)} |->
                  IF x = IdOf(item.m) THEN item ELSE prev[x]]
          ELSE prev

\* A Go map is ranged over in an unspecified order; the model ranges in
\* ascending order of the keys, and the claims compare the Changes as a bag.
RECURSIVE SortStrs(_)
SortStrs(S) ==
  IF S = {} THEN <<>>
  ELSE LET mn == CHOOSE x \in S : \A y \in S \ {x} : StrLess(x, y)
       IN <<mn>> \o SortStrs(S \ {mn})

RECURSIVE diffValues(_, _, _)
RECURSIVE diffSliceOfDicts(_, _, _)
RECURSIVE diffMatches(_, _, _, _)
RECURSIVE diffAdditions(_, _, _, _)
RECURSIVE diffMapOld(_, _, _, _)
RECURSIVE diffMapNew(_, _, _, _)
RECURSIVE diffPositional(_, _, _, _)
RECURSIVE diffExtra(_, _, _, _)

\* lines 94-108: for key, oldItem := range oldMap
diffMatches(oldMap, newMap, path, keys) ==
  IF Len(keys) = 0 THEN Returned(<<>>)
  ELSE LET key == keys[1]
           p == path \o S_open \o key \o S_close
           here == IF key \in DOMAIN newMap
                   THEN diffValues(oldMap[key], newMap[key], p)
                   ELSE Returned(<<Change("Deletion", p, oldMap[key], Nil)>>)
       IN AppendChanges(here, diffMatches(oldMap, newMap, path, Tail(keys)))

\* lines 110-120: for key, newItem := range newMap
diffAdditions(oldMap, newMap, path, keys) ==
  IF Len(keys) = 0 THEN Returned(<<>>)
  ELSE LET key == keys[1]
           p == path \o S_open \o key \o S_close
           here == IF key \notin DOMAIN oldMap
                   THEN Returned(<<Change("Addition", p, Nil, newMap[key])>>)
                   ELSE Returned(<<>>)
       IN AppendChanges(here, diffAdditions(oldMap, newMap, path, Tail(keys)))

diffSliceOfDicts(oldSlice, newSlice, path) ==
  LET oldMap == groupById(oldSlice, Len(oldSlice))
      newMap == groupById(newSlice, Len(newSlice))
  IN AppendChanges(diffMatches(oldMap, newMap, path, SortStrs(DOMAIN oldMap)),
            diffAdditions(oldMap, newMap, path, SortStrs(DOMAIN newMap)))

\* lines 303-317: for key, oldValue := range oldMap
diffMapOld(oldMap, newMap, path, keys) ==
  IF Len(keys) = 0 THEN Returned(<<>>)
  ELSE LET key == keys[1]
           p == path \o S_dot \o SprintfV(key)
           here == IF key \notin DOMAIN newMap
                   THEN Returned(<<Change("Deletion", p, oldMap[key], Nil)>>)
                   ELSE diffValues(oldMap[key], newMap[key], p)
       IN AppendChanges(here, diffMapOld(oldMap, newMap, path, Tail(keys)))

\* lines 320-330: for key, newValue := range newMap
diffMapNew(oldMap, newMap, path, keys) ==
  IF Len(keys) = 0 THEN Returned(<<>>)
  ELSE LET key == keys[1]
           p == path \o S_dot \o SprintfV(key)
           here == IF key \notin DOMAIN oldMap
                   THEN Returned(<<Change("Addition", p, Nil, newMap[key])>>)
                   ELSE Returned(<<>>)
       IN AppendChanges(here, diffMapNew(oldMap, newMap, path, Tail(keys)))

\* lines 346-349: for i := 0; i < minLen; i++ (i is the Go index)
diffPositional(oldSlice, newSlice, path, i) ==
  IF i >= Len(oldSlice) \/ i >= Len(newSlice) THEN Returned(<<>>)
  ELSE AppendChanges(diffValues(oldSlice[i + 1], newSlice[i + 1],
                         path \o S_open \o Itoa(i) \o S_close),
              diffPositional(oldSlice, newSlice, path, i + 1))

\* lines 352-370: the elements the longer slice has beyond the shorter one
diffExtra(oldSlice, newSlice, path, i) ==
  IF i < Len(oldSlice) /\ Len(oldSlice) > Len(newSlice)
  THEN AppendChanges(Returned(<<Change("Deletion", path \o S_open \o Itoa(i) \o S_close,
                                oldSlice[i + 1], Nil)>>),
              diffExtra(oldSlice, newSlice, path, i + 1))
  ELSE IF i < Len(newSlice) /\ Len(newSlice) > Len(oldSlice)
  THEN AppendChanges(Returned(<<Change("Addition", path \o S_open \o Itoa(i) \o S_close,
                                Nil, newSlice[i + 1])>>),
              diffExtra(oldSlice, newSlice, path, i + 1))
  ELSE Returned(<<>>)

Min(a, b) == IF a < b THEN a ELSE b

\* Mutant of diffTypeChange: a change of type reported as a Deletion of the old
\* value and an Addition of the new one.
diffTypeChangeAsPair(oldVal, newVal, path) ==
  Returned(<<Change("Deletion", path, oldVal, Nil),
             Change("Addition", path, Nil, newVal)>>)

\* lines 267-275: both present, dynamic types differ
diffTypeChange(oldVal, newVal, path) ==
  Returned(<<Change("Modification", path, oldVal, newVal)>>)

\* Mutant of diffNilOld: a value that appears reported as a Modification.
diffNilOldAsModification(oldVal, newVal, path) ==
  Returned(<<Change("Modification", path, oldVal, newVal)>>)

\* lines 278-286: old is nil
diffNilOld(oldVal, newVal, path) ==
  Returned(<<Change("Addition", path, Nil, newVal)>>)

\* lines 287-295: new is nil
diffNilNew(oldVal, newVal, path) ==
  Returned(<<Change("Deletion", path, oldVal, Nil)>>)

\* lines 298-330: case reflect.Map
diffMap(oldVal, newVal, path) ==
  AppendChanges(diffMapOld(oldVal.m, newVal.m, path, SortKeys(DOMAIN oldVal.m)),
                diffMapNew(oldVal.m, newVal.m, path, SortKeys(DOMAIN newVal.m)))

\* lines 332-371: case reflect.Slice; && evaluates its right side only when
\* the left side is true
diffSlice(oldVal, newVal, path) ==
  LET oldIds == isSliceOfDictsWithIds(oldVal.e)
      newIds == IF oldIds = "true" THEN isSliceOfDictsWithIds(newVal.e) ELSE "false"
  IN IF oldIds = "panic" \/ newIds = "panic" THEN Panicked
     ELSE IF oldIds = "true" /\ newIds = "true"
       THEN diffSliceOfDicts(oldVal.e, newVal.e, path)
     ELSE AppendChanges(diffPositional(oldVal.e, newVal.e, path, 0),
                        diffExtra(oldVal.e, newVal.e, path,
                                  Min(Len(oldVal.e), Len(newVal.e))))

\* lines 373-383: default, primitive values
diffPrimitive(oldVal, newVal, path) ==
  IF ~DeepEqual(oldVal, newVal)
  THEN Returned(<<Change("Modification", path, oldVal, newVal)>>)
  ELSE Returned(<<>>)

diffValues(oldVal, newVal, path) ==
  IF DeepEqual(oldVal, newVal) THEN Returned(<<>>)
  ELSE IF oldVal.k # newVal.k /\ oldVal.k # "nil" /\ newVal.k # "nil"
    THEN diffTypeChange(oldVal, newVal, path)
  ELSE IF oldVal.k = "nil" /\ newVal.k # "nil" THEN diffNilOld(oldVal, newVal, path)
  ELSE IF oldVal.k # "nil" /\ newVal.k = "nil" THEN diffNilNew(oldVal, newVal, path)
  ELSE IF oldVal.k = "map" THEN diffMap(oldVal, newVal, path)
  ELSE IF oldVal.k = "slice" THEN diffSlice(oldVal, newVal, path)
  ELSE diffPrimitive(oldVal, newVal, path)

(***************************************************************************)
(* Rendering.  Text is a byte sequence.                                    *)
(***************************************************************************)
S_NoChanges ==
  <<78, 111, 32, 99, 104, 97, 110, 103, 101, 115, 32, 102, 111, 117, 110, 100, 46, 10>>
S_nl == <<10>>
S_null == <<110, 117, 108, 108>>
S_colonSpace == <<58, 32>>
S_plus == <<43, 32>>
S_dash == <<45, 32>>
S_tilde == <<126, 32>>
S_arrow == <<32, 226, 134, 146, 32>>
S_indent3 == <<32, 32, 32>>
S_quote == <<34>>
S_dotnan == <<46, 110, 97, 110>>
S_emptyMap == <<123, 125>>
S_emptySeq == <<91, 93>>
S_esc == <<27, 91>>
S_m == <<109>>
S_reset == <<27, 91, 48, 109>>
FgRed == 31
FgGreen == 32
FgYellow == 33
FgBlue == 34

\* Mutant of Sprint: the escape sequences are written whatever color.NoColor is.
SprintAlways(attr, text, nocolor) == S_esc \o Itoa(attr) \o S_m \o text \o S_reset

\* color.New(attr).Sprint(s): the text alone when color.NoColor is set
Sprint(attr, text, nocolor) ==
  IF nocolor THEN text ELSE S_esc \o Itoa(attr) \o S_m \o text \o S_reset

\* strings.Contains(s, "\n")
ContainsNewline(text) == \E i \in 1..Len(text) : text[i] = 10

\* strings.Split(s, "\n")
RECURSIVE SplitLines(_, _)
SplitLines(text, line) ==
  IF Len(text) = 0 THEN <<line>>
  ELSE IF text[1] = 10 THEN <<line>> \o SplitLines(Tail(text), <<>>)
  ELSE SplitLines(Tail(text), line \o <<text[1]>>)

\* strings.TrimSpace(line) != ""
NotBlank(line) == \E i \in 1..Len(line) : line[i] \notin {9, 10, 11, 12, 13, 32}

\* prefixLinesComplex, from line i (Go index) of the split text on
RECURSIVE prefixLinesFrom(_, _, _)
prefixLinesFrom(lines, prefix, i) ==
  IF i >= Len(lines) THEN <<>>
  ELSE LET line == lines[i + 1]
           out == IF i > 0 \/ line # <<>>
                  THEN prefix \o (IF NotBlank(line) THEN S_indent3 ELSE <<>>)
                         \o line \o S_nl
                  ELSE <<>>
       IN out \o prefixLinesFrom(lines, prefix, i + 1)

prefixLinesComplex(text, prefix) == prefixLinesFrom(SplitLines(text, <<>>), prefix, 0)

\* yaml.v3 writes a string that would read back as another type in quotes.
RECURSIVE AllDigits(_)
AllDigits(text) ==
  Len(text) = 0 \/ (text[1] \in 48..57 /\ AllDigits(Tail(text)))
yamlScalar(v) ==
  CASE v.k = "nil" -> S_null
    [] v.k = "int" -> Itoa(v.i)
    [] v.k = "bool" -> (IF v.b THEN S_true ELSE S_false)
    [] v.k = "float64" -> S_dotnan
    [] v.k = "string" ->
         IF AllDigits(v.s) \/ v.s \in {S_null, S_true, S_false}
         THEN S_quote \o v.s \o S_quote ELSE v.s
    [] v.k = "map" -> S_emptyMap
    [] v.k = "slice" -> S_emptySeq

RECURSIVE Spaces(_)
Spaces(n) == IF n <= 0 THEN <<>> ELSE <<32>> \o Spaces(n - 1)

IsBlock(v) == (v.k = "map" /\ DOMAIN v.m # {}) \/ (v.k = "slice" /\ Len(v.e) > 0)

\* The block-style lines of yaml.NewEncoder with SetIndent(3), for a mapping or
\* a sequence at the given column.
RECURSIVE yamlLines(_, _)
RECURSIVE yamlMapLines(_, _, _)
RECURSIVE yamlSeqLines(_, _, _)
yamlLines(v, col) ==
  IF v.k = "map" THEN yamlMapLines(v.m, SortKeys(DOMAIN v.m), col)
  ELSE yamlSeqLines(v.e, 1, col)

yamlMapLines(m, keys, col) ==
  IF Len(keys) = 0 THEN <<>>
  ELSE LET key == keys[1]
           head == Spaces(col) \o yamlScalar(key) \o S_colon
           here == IF IsBlock(m[key])
                   THEN <<head>> \o yamlLines(m[key], col + 3)
                   ELSE <<head \o S_space \o yamlScalar(m[key])>>
       IN here \o yamlMapLines(m, Tail(keys), col)

\* An item that is itself a block starts on the line of its dash.
yamlSeqLines(e, i, col) ==
  IF i > Len(e) THEN <<>>
  ELSE LET here ==
             IF IsBlock(e[i])
             THEN LET sub == yamlLines(e[i], col + 3)
                  IN <<Spaces(col) \o <<45, 32, 32>> \o SubSeq(sub[1], col + 4, Len(sub[1]))>>
                       \o Tail(sub)
             ELSE <<Spaces(col) \o S_dash \o yamlScalar(e[i])>>
       IN here \o yamlSeqLines(e, i + 1, col)

RECURSIVE JoinLines(_)
JoinLines(lines) ==
  IF Len(lines) = 0 THEN <<>>
  ELSE IF Len(lines) = 1 THEN lines[1]
  ELSE lines[1] \o S_nl \o JoinLines(Tail(lines))

\* formatValue; the text of the encoder with its final newline trimmed
formatValue(v) ==
  IF v.k = "nil" THEN S_null
  ELSE IF v.k \in {"map", "slice"}
    THEN (IF IsBlock(v) THEN JoinLines(yamlLines(v, 0)) ELSE yamlScalar(v))
  ELSE SprintfV(v)

\* isStringValue
isStringValue(v) == v.k = "string"

\* colorStringDiff
colorStringDiff(oldStr, newStr, nocolor) ==
  <<Sprint(FgRed, oldStr, nocolor), Sprint(FgGreen, newStr, nocolor)>>

\* lines 143-157 and 158-172: an Addition or a Deletion with its value
renderValue(coloredPrefix, changePath, formattedValue) ==
  coloredPrefix \o changePath \o S_colonSpace
    \o (IF ContainsNewline(formattedValue)
        THEN S_nl \o prefixLinesComplex(formattedValue, coloredPrefix)
        ELSE formattedValue \o S_nl)

\* lines 141-188: the text written for one change
renderChange(change, nocolor) ==
  CASE change.Type = "Addition" ->
         renderValue(Sprint(FgGreen, S_plus, nocolor), change.Path,
                     formatValue(change.NewValue))
    [] change.Type = "Deletion" ->
         renderValue(Sprint(FgRed, S_dash, nocolor), change.Path,
                     formatValue(change.OldValue))
    [] change.Type = "Modification" ->
         Sprint(FgYellow, S_tilde, nocolor) \o change.Path \o S_colonSpace
           \o (IF isStringValue(change.OldValue) /\ isStringValue(change.NewValue)
               THEN LET c == colorStringDiff(change.OldValue.s, change.NewValue.s, nocolor)
                    IN c[1] \o S_arrow \o c[2] \o S_nl
               ELSE formatValue(change.OldValue) \o S_arrow
                      \o formatValue(change.NewValue) \o S_nl)

RECURSIVE renderAll(_, _)
renderAll(cs, nocolor) ==
  IF Len(cs) = 0 THEN <<>>
  ELSE renderChange(cs[1], nocolor) \o renderAll(Tail(cs), nocolor)

\* Mutant of generateColoredDiff: no special case for the empty collection.
generateColoredDiffWithoutEmptyCase(cs, nocolor) ==
  renderAll(sortSlice([i \in 1..Len(cs) |-> <<cs[i].Path, cs[i]>>]), nocolor)

\* generateColoredDiff
generateColoredDiff(cs, nocolor) ==
  IF Len(cs) = 0 THEN S_NoChanges
  ELSE renderAll(sortSlice([i \in 1..Len(cs) |-> <<cs[i].Path, cs[i]>>]), nocolor)

(***************************************************************************)
(* State.  pc is the position of the run; the other variables belong to    *)
(* one of three specifications and keep their initial value in the others. *)
(***************************************************************************)
VARIABLES
  pc,
  \* SpecNorm: the Canonicalizer applied to a raw tree and to a permutation of it
  raw, rawPerm, normalized, normalizedPerm, renormalized, idsClass,
  \* SpecDiff: the Tree Differ applied to two canonical trees
  oldVal, newVal, permVal, path, changes, permChanges, revChanges, revPermChanges,
  \* Spec: a run of main
  cli, file1, file2, disableComments, noDocComment, noColor, colorNoColor,
  documents1, documents2, docIndex, stdout, stderr, exitCode,
  \* SpecRender: generateColoredDiff applied to a Change collection
  entries, coloredText, plainText, reordered, reorderedText

normVars == <<raw, rawPerm, normalized, normalizedPerm, renormalized, idsClass>>
diffVars == <<oldVal, newVal, permVal, path, changes, permChanges, revChanges,
              revPermChanges>>
mainVars == <<cli, file1, file2, disableComments, noDocComment, noColor, colorNoColor,
              documents1, documents2, docIndex, stdout, stderr, exitCode>>
renderVars == <<entries, coloredText, plainText, reordered, reorderedText>>
vars == <<pc, normVars, diffVars, mainVars, renderVars>>

Unset == [k |-> "unset"]
NoResult == [unset |-> TRUE]

NormIdle ==
  /\ raw = Unset /\ rawPerm = Unset /\ normalized = Unset
  /\ normalizedPerm = Unset /\ renormalized = Unset /\ idsClass = "unset"
DiffIdle ==
  /\ oldVal = Unset /\ newVal = Unset /\ permVal = Unset /\ path = S_empty
  /\ changes = NoResult /\ permChanges = NoResult
  /\ revChanges = NoResult /\ revPermChanges = NoResult

NotParsed == [parsed |-> FALSE, docs |-> <<>>]
NoFile == [name |-> <<>>, err |-> <<>>, docs |-> <<>>]
NoCli == [help |-> FALSE, c |-> FALSE, d |-> FALSE, n |-> FALSE, nargs |-> 0]
MainIdle ==
  /\ cli = NoCli /\ file1 = NoFile /\ file2 = NoFile
  /\ disableComments = FALSE /\ noDocComment = FALSE /\ noColor = FALSE
  /\ colorNoColor = FALSE
  /\ documents1 = NotParsed /\ documents2 = NotParsed /\ docIndex = 0
  /\ stdout = <<>> /\ stderr = <<>> /\ exitCode = -1
RenderIdle ==
  /\ entries = <<>> /\ coloredText = <<>> /\ plainText = <<>>
  /\ reordered = <<>> /\ reorderedText = <<>>

(***************************************************************************)
(* Bounds and the trees the inputs are drawn from.                         *)
(***************************************************************************)
MaxLen == 2

\* All sequences over S of length at most n.
SeqsUpTo(S, n) == UNION {[1..len -> S] : len \in 0..n}

\* All orderings of the elements of a sequence.
Permutation(s, f) == [i \in 1..Len(s) |-> s[f[i]]]
Perms(s) ==
  {Permutation(s, f) : f \in {g \in [1..Len(s) -> 1..Len(s)] :
                                \A i, j \in 1..Len(s) : g[i] = g[j] => i = j}}

KeyName == StrV(S_name)
KeyKey == StrV(S_key)
KeyId == StrV(S_id)
KeyV == StrV(S_v)
Rec1(k1, v1) == MapV([x \in {k1} |-> v1])
Rec2(k1, v1, k2, v2) == MapV([x \in {k1, k2} |-> IF x = k1 THEN v1 ELSE v2])

Scalars == {Nil, IntV(1), StrV(S_1), NaN}

\* Raw trees handed to normalizeValue.
NormElems ==
  Scalars \cup {StrV(S_z), Rec1(KeyName, IntV(1)), Rec1(KeyKey, IntV(1)),
                Rec1(KeyV, IntV(1)), Rec1(KeyV, StrV(S_1))}
NormSlices == {SliceV(e) : e \in SeqsUpTo(NormElems, MaxLen)}
RawValues ==
  NormElems \cup NormSlices
    \cup {SliceV(<<x>>) : x \in NormSlices}
    \cup {Rec1(KeyV, x) : x \in NormSlices}

PermValues(v) == IF v.k = "slice" THEN {SliceV(e) : e \in Perms(v.e)} ELSE {v}

\* The elements normalizeValue classifies (line 417-423), when none panicked.
normalizedElements(v) == [i \in 1..Len(v.e) |-> normalizeValue(v.e[i])]

(***************************************************************************)
(* SpecNorm: normalizeValue and isSliceOfDictsWithIds.                      *)
(***************************************************************************)
InitNorm ==
  /\ pc = "input"
  /\ raw \in RawValues
  /\ rawPerm \in PermValues(raw)
  /\ normalized = Unset /\ normalizedPerm = Unset /\ renormalized = Unset
  /\ idsClass = "unset"
  /\ DiffIdle /\ MainIdle /\ RenderIdle

\* isSliceOfDictsWithIds(elements), line 423
Classify ==
  /\ pc = "input"
  /\ raw.k = "slice"
  /\ \A i \in 1..Len(raw.e) : normalizedElements(raw)[i].k # "panic"
  /\ idsClass' = isSliceOfDictsWithIds(normalizedElements(raw))
  /\ pc' = "classified"
  /\ UNCHANGED <<raw, rawPerm, normalized, normalizedPerm, renormalized, diffVars, mainVars, renderVars>>

\* Data: normalizeValue(doc), line 521, for the tree and for its permutation
Normalize ==
  /\ pc \in {"input", "classified"}
  /\ normalized' = normalizeValue(raw)
  /\ normalizedPerm' = normalizeValue(rawPerm)
  /\ pc' = "normalized"
  /\ UNCHANGED <<raw, rawPerm, renormalized, idsClass, diffVars, mainVars, renderVars>>

\* normalizeValue applied to its own result
Renormalize ==
  /\ pc = "normalized"
  /\ normalized.k # "panic"
  /\ renormalized' = normalizeValue(normalized)
  /\ pc' = "renormalized"
  /\ UNCHANGED <<raw, rawPerm, normalized, normalizedPerm, idsClass, diffVars, mainVars, renderVars>>

NextNorm == Classify \/ Normalize \/ Renormalize
SpecNorm == InitNorm /\ [][NextNorm]_vars

(***************************************************************************)
(* The spec's definition of an identifiable-record sequence (data model):  *)
(* non-empty, every element a mapping, at least one with name, key or id.  *)
(***************************************************************************)
SpecIdentifiable(e) ==
  /\ Len(e) > 0
  /\ \A i \in 1..Len(e) : e[i].k = "map"
  /\ \E i \in 1..Len(e) : HasKey(e[i].m, S_name) \/ HasKey(e[i].m, S_key)
                            \/ HasKey(e[i].m, S_id)
SpecPlain(e) == ~SpecIdentifiable(e)

\* C1: order-insensitivity of canonicalization: a plain sequence and any
\* permutation of it normalize to the same tree.  Stated for the runs in which
\* neither call panics, so that a violation does not rest on the panic of C8.
C1_OrderInsensitive ==
  (/\ pc \in {"normalized", "renormalized"}
   /\ raw.k = "slice" /\ SpecPlain(raw.e)
   /\ normalized.k # "panic" /\ normalizedPerm.k # "panic")
  => normalized = normalizedPerm

\* C3: idempotence of canonicalization: normalizing a normalized tree returns
\* the same tree.
C3_Idempotent ==
  pc = "renormalized" => renormalized = normalized

\* C5: isSliceOfDictsWithIds answers true exactly for the identifiable-record
\* sequences of the spec and false for every other sequence.  Stated for the
\* calls that return.
C5_Classification ==
  (pc = "classified" /\ idsClass # "panic")
  => idsClass = (IF SpecIdentifiable(normalizedElements(raw)) THEN "true" ELSE "false")

\* C8: canonicalization is total: normalizeValue returns for every tree, also
\* for sequences with Null elements.
C8_NormalizeTotal ==
  pc \in {"normalized", "renormalized"} => normalized.k # "panic"

(***************************************************************************)
(* SpecDiff: diffValues on two canonical trees, on a reordering of the old *)
(* one, and with the two sides exchanged.                                  *)
(***************************************************************************)
RecA == Rec1(KeyName, IntV(1))
RecB == Rec2(KeyName, IntV(1), KeyV, IntV(1))
RecC == Rec1(KeyId, StrV(S_z))
RecV == Rec1(KeyV, IntV(1))
DiffElems == {Nil, NaN, RecA, RecB, RecC, RecV}
\* mappings with a Null value, with two leaves, with a nested mapping, with NaN
RecNull == Rec1(KeyV, Nil)
RecZ == Rec2(KeyName, StrV(S_z), KeyV, StrV(S_1))
RecNested == Rec1(KeyV, RecV)
RecNestedStr == Rec1(KeyV, Rec1(KeyV, StrV(S_1)))
RecNaN == Rec2(KeyName, IntV(1), KeyV, NaN)
RecNaNZ == Rec2(KeyName, StrV(S_z), KeyV, NaN)
\* records with two identifier fields, and with a changed field
RecNameId == Rec2(KeyName, IntV(1), KeyId, StrV(S_z))
RecBStr == Rec2(KeyName, IntV(1), KeyV, StrV(S_1))
\* a record whose name is the id of RecC
RecNameZ == Rec1(KeyName, StrV(S_z))
DiffRaw ==
  Scalars \cup {RecA, RecB, RecC, RecV, Rec1(KeyV, StrV(S_1))}
    \cup {RecNull, RecZ, RecNested, RecNestedStr, RecNaN, RecNaNZ}
    \cup {SliceV(<<RecNameId>>), SliceV(<<RecBStr>>)}
    \cup {SliceV(<<RecNameZ, RecC>>), SliceV(<<RecC, RecNameZ>>)}
    \cup {SliceV(e) : e \in SeqsUpTo(DiffElems, MaxLen)}
\* The trees parseYAML hands to the differ: results of normalizeValue.
CanonValues == {normalizeValue(r) : r \in DiffRaw} \ {Panic}
Paths == {S_empty, S_dot \o S_v}

\* A reordering of an identifiable-record sequence is canonical as well.
RecordPerms(v) ==
  IF v.k = "slice" /\ SpecIdentifiable(v.e) THEN PermValues(v) ELSE {v}

InitDiff ==
  /\ pc = "input"
  /\ oldVal \in CanonValues
  /\ newVal \in CanonValues
  /\ permVal \in RecordPerms(oldVal)
  /\ path = S_empty
  /\ changes = NoResult /\ permChanges = NoResult
  /\ revChanges = NoResult /\ revPermChanges = NoResult
  /\ NormIdle /\ MainIdle /\ RenderIdle

\* changes := diffValues(doc1Data, doc2Data, path)
DiffValues ==
  /\ pc = "input"
  /\ \E p \in Paths :
       /\ path' = p
       /\ changes' = diffValues(oldVal, newVal, p)
  /\ pc' = "diffed"
  /\ UNCHANGED <<oldVal, newVal, permVal, permChanges, revChanges, revPermChanges,
                 normVars, mainVars, renderVars>>

\* the same call with the old sequence reordered
DiffPermuted ==
  /\ pc = "diffed"
  /\ permChanges' = diffValues(permVal, newVal, path)
  /\ pc' = "permuted"
  /\ UNCHANGED <<oldVal, newVal, permVal, path, changes, revChanges, revPermChanges,
                 normVars, mainVars, renderVars>>

\* the call with old and new exchanged
DiffReversed ==
  /\ pc = "permuted"
  /\ revChanges' = diffValues(newVal, oldVal, path)
  /\ pc' = "reversed"
  /\ UNCHANGED <<oldVal, newVal, permVal, path, changes, permChanges, revPermChanges,
                 normVars, mainVars, renderVars>>

\* the exchanged call with the reordered sequence on the new side
DiffReversedPermuted ==
  /\ pc = "reversed"
  /\ revPermChanges' = diffValues(newVal, permVal, path)
  /\ pc' = "done"
  /\ UNCHANGED <<oldVal, newVal, permVal, path, changes, permChanges, revChanges,
                 normVars, mainVars, renderVars>>

NextDiff == DiffValues \/ DiffPermuted \/ DiffReversed \/ DiffReversedPermuted
SpecDiff == InitDiff /\ [][NextDiff]_vars

\* The Changes of a result, as a set.
ChangeSet(r) == {r.changes[i] : i \in 1..Len(r.changes)}

\* The elements of e that have an identifier have pairwise different ones.
IdsDistinct(e) ==
  \A i, j \in 1..Len(e) :
    (i # j /\ e[i].k = "map" /\ e[j].k = "map" /\ HasId(e[i].m) /\ HasId(e[j].m))
    => IdOf(e[i].m) # IdOf(e[j].m)

SameOutcome(r1, r2) ==
  r1.panicked = r2.panicked /\ ChangeSet(r1) = ChangeSet(r2)

\* C2 as claimed: reordering an identifiable-record sequence S before diffing it
\* against any fixed counterpart T gives the same set of Changes, with S on the
\* old side and with S on the new side.
C2_RecordOrderInsensitive ==
  (pc = "done" /\ oldVal.k = "slice" /\ SpecIdentifiable(oldVal.e))
  => /\ SameOutcome(changes, permChanges)
     /\ SameOutcome(revChanges, revPermChanges)

\* C2 amended: the same, for a sequence S whose elements have pairwise
\* different identifiers and a counterpart T that isSliceOfDictsWithIds accepts
\* as a record sequence too.
C2_RecordOrderAmended ==
  (/\ pc = "done" /\ oldVal.k = "slice" /\ SpecIdentifiable(oldVal.e)
   /\ IdsDistinct(oldVal.e)
   /\ newVal.k = "slice" /\ isSliceOfDictsWithIds(newVal.e) = "true")
  => /\ SameOutcome(changes, permChanges)
     /\ SameOutcome(revChanges, revPermChanges)

\* C2 witness: a record sequence with different identifiers, really reordered,
\* diffed against a record sequence, with Changes found.
C2_Witness ==
  /\ pc = "done" /\ oldVal.k = "slice" /\ SpecIdentifiable(oldVal.e)
  /\ IdsDistinct(oldVal.e) /\ permVal # oldVal
  /\ newVal.k = "slice" /\ isSliceOfDictsWithIds(newVal.e) = "true"
  /\ Len(changes.changes) > 1

\* C4: reflexivity: diffing a canonical tree (or nil) against itself returns no
\* Change.
C4_Reflexive ==
  (pc # "input" /\ oldVal = newVal) => changes = Returned(<<>>)

\* C6: type-change atomicity: two present values of different dynamic type give
\* exactly one Modification at the path, carrying both values whole.
C6_TypeChangeAtomic ==
  (pc # "input" /\ oldVal.k # "nil" /\ newVal.k # "nil" /\ oldVal.k # newVal.k)
  => changes = Returned(<<Change("Modification", path, oldVal, newVal)>>)

\* C6 witness: a mapping diffed against a scalar.
C6_Witness ==
  pc = "diffed" /\ oldVal.k = "map" /\ newVal.k = "int" /\ Len(changes.changes) = 1

\* C7: absent-side handling: nil against v is one Addition of v at the path, v
\* against nil one Deletion of v, nil against nil nothing; v is not descended.
C7_AbsentSide ==
  pc # "input" =>
    /\ (oldVal.k = "nil" /\ newVal.k # "nil")
         => changes = Returned(<<Change("Addition", path, Nil, newVal)>>)
    /\ (oldVal.k # "nil" /\ newVal.k = "nil")
         => changes = Returned(<<Change("Deletion", path, oldVal, Nil)>>)
    /\ (oldVal.k = "nil" /\ newVal.k = "nil") => changes = Returned(<<>>)

\* C7 witness: nil diffed against a sequence of records.
C7_Witness ==
  /\ pc = "diffed" /\ oldVal.k = "nil" /\ newVal.k = "slice" /\ Len(newVal.e) > 1
  /\ Len(changes.changes) = 1

\* C9: the Tree Differ is total: diffValues returns for every pair of canonical
\* trees.
C9_DiffTotal ==
  pc # "input" => ~changes.panicked

\* A Change as the data model wants it; a value is absent when it is nil.
WellFormed(c) ==
  CASE c.Type = "Addition" -> c.OldValue = Nil /\ c.NewValue # Nil
    [] c.Type = "Deletion" -> c.NewValue = Nil
    [] c.Type = "Modification" ->
         c.OldValue # Nil /\ c.NewValue # Nil /\ c.OldValue # c.NewValue

\* C16: Change well-formedness: every Change diffValues returns (those of
\* diffSliceOfDicts included) is an Addition with OldValue absent and NewValue
\* present, a Deletion with NewValue absent, or a Modification with both values
\* present and not structurally equal.
C16_WellFormedChanges ==
  pc # "input" => \A c \in ChangeSet(changes) : WellFormed(c)

IsScalar(v) == v.k \in {"int", "string", "bool", "float64"}

\* Two trees of mappings with the same keys all the way down to scalar leaves.
RECURSIVE IdenticalShape(_, _)
IdenticalShape(a, b) ==
  \/ IsScalar(a) /\ IsScalar(b)
  \/ /\ a.k = "map" /\ b.k = "map" /\ DOMAIN a.m = DOMAIN b.m
     /\ \A k \in DOMAIN a.m : IdenticalShape(a.m[k], b.m[k])

\* One Modification at the dotted path of each scalar leaf that differs.
RECURSIVE LeafModifications(_, _, _)
LeafModifications(a, b, p) ==
  IF IsScalar(a)
  THEN (IF a # b THEN {Change("Modification", p, a, b)} ELSE {})
  ELSE UNION {LeafModifications(a.m[k], b.m[k], p \o S_dot \o k.s) : k \in DOMAIN a.m}

\* The Changes the mapping rule asks for.
MappingChanges(old, new, p) ==
  {Change("Deletion", p \o S_dot \o k.s, old[k], Nil) : k \in DOMAIN old \ DOMAIN new}
    \cup {Change("Addition", p \o S_dot \o k.s, Nil, new[k]) :
             k \in DOMAIN new \ DOMAIN old}
    \cup UNION {ChangeSet(diffValues(old[k], new[k], p \o S_dot \o k.s)) :
                  k \in DOMAIN old \cap DOMAIN new}

\* The first part of C17 alone: the union of the three kinds of key.
MappingUnion ==
  (pc # "input" /\ oldVal.k = "map" /\ newVal.k = "map" /\ oldVal # newVal)
  => /\ ~changes.panicked
     /\ ChangeSet(changes) = MappingChanges(oldVal.m, newVal.m, path)

\* C17: mapping diff: for unequal mappings the Changes are one Deletion per key
\* only in old, one Addition per key only in new, and the Changes of the values
\* of every key in both; two mappings of identical shape that differ in n scalar
\* leaves give exactly n Modifications, one at each differing leaf's dotted path.
C17_MappingDiff ==
  (pc # "input" /\ oldVal.k = "map" /\ newVal.k = "map" /\ oldVal # newVal)
  => /\ ~changes.panicked
     /\ ChangeSet(changes) = MappingChanges(oldVal.m, newVal.m, path)
     /\ IdenticalShape(oldVal, newVal)
          => /\ ChangeSet(changes) = LeafModifications(oldVal, newVal, path)
             /\ Len(changes.changes) = Cardinality(LeafModifications(oldVal, newVal, path))

\* The identifier of a record as the Record Matcher is described: the string
\* form of the first field present among name, key, id.
RecordIdentifier(m) ==
  IF StrV(S_name) \in DOMAIN m THEN SprintfV(m[StrV(S_name)])
  ELSE IF StrV(S_key) \in DOMAIN m THEN SprintfV(m[StrV(S_key)])
  ELSE SprintfV(m[StrV(S_id)])
HasIdentifier(m) == \E f \in {S_name, S_key, S_id} : StrV(f) \in DOMAIN m
Identifiers(e) ==
  {RecordIdentifier(e[i].m) : i \in {j \in 1..Len(e) : HasIdentifier(e[j].m)}}
RecordsOf(e, id) ==
  {e[i] : i \in {j \in 1..Len(e) :
                  HasIdentifier(e[j].m) /\ RecordIdentifier(e[j].m) = id}}
\* one record for every identifier of the sequence
RecordChoices(e) ==
  {f \in [Identifiers(e) -> {e[i] : i \in 1..Len(e)}] :
     \A id \in Identifiers(e) : f[id] \in RecordsOf(e, id)}

\* The Changes the Record Matcher is to give for the records chosen.
RecordChanges(old, new, p) ==
  {Change("Deletion", p \o S_open \o id \o S_close, old[id], Nil) :
     id \in DOMAIN old \ DOMAIN new}
    \cup {Change("Addition", p \o S_open \o id \o S_close, Nil, new[id]) :
             id \in DOMAIN new \ DOMAIN old}
    \cup UNION {ChangeSet(diffValues(old[id], new[id], p \o S_open \o id \o S_close)) :
                  id \in DOMAIN old \cap DOMAIN new}

\* C18: record matching: for two identifiable-record sequences at path p, with a
\* record's identifier the string form of its first field among name, key, id:
\* an identifier only in old gives one Deletion at p[identifier] with the whole
\* old record, one only in new gives one Addition there with the whole new
\* record, and one in both gives the Changes of diffValues on its two records at
\* that path; nothing else is returned and no Change twice.
C18_RecordMatching ==
  (/\ pc # "input" /\ oldVal.k = "slice" /\ newVal.k = "slice"
   /\ SpecIdentifiable(oldVal.e) /\ SpecIdentifiable(newVal.e))
  => /\ ~changes.panicked
     /\ \E old \in RecordChoices(oldVal.e), new \in RecordChoices(newVal.e) :
          /\ ChangeSet(changes) = RecordChanges(old, new, path)
          /\ Len(changes.changes) = Cardinality(RecordChanges(old, new, path))

\* C18 witness: one changed field of a matched record is one Modification at
\* p[identifier].field.
C18_Witness ==
  /\ pc = "diffed" /\ oldVal = SliceV(<<RecB>>) /\ newVal = SliceV(<<RecBStr>>)
  /\ changes = Returned(<<Change("Modification",
                                 path \o S_open \o S_1 \o S_close \o S_dot \o S_v,
                                 IntV(1), StrV(S_1))>>)

\* The Changes of the positional comparison of two sequences.
PositionalChanges(old, new, p) ==
  UNION {ChangeSet(diffValues(old[i + 1], new[i + 1], p \o S_open \o Itoa(i) \o S_close)) :
           i \in 0..(Min(Len(old), Len(new)) - 1)}
    \cup {Change("Deletion", p \o S_open \o Itoa(i) \o S_close, old[i + 1], Nil) :
             i \in Len(new)..(Len(old) - 1)}
    \cup {Change("Addition", p \o S_open \o Itoa(i) \o S_close, Nil, new[i + 1]) :
             i \in Len(old)..(Len(new) - 1)}

\* C19: sequence strategy: two unequal sequences go to the Record Matcher exactly
\* when both are identifiable-record sequences; otherwise the Changes are those
\* of diffValues on the elements at each common index i, at p[i], and one
\* Deletion or Addition at p[i] for each surplus element of the longer one.
\* Stated for the calls that return.
C19_SequenceStrategy ==
  (/\ pc # "input" /\ oldVal.k = "slice" /\ newVal.k = "slice" /\ oldVal # newVal
   /\ ~changes.panicked)
  => IF SpecIdentifiable(oldVal.e) /\ SpecIdentifiable(newVal.e)
     THEN ChangeSet(changes) = ChangeSet(diffSliceOfDicts(oldVal.e, newVal.e, path))
     ELSE ChangeSet(changes) = PositionalChanges(oldVal.e, newVal.e, path)

\* C20: Null is a present value: for a key in both mappings with Null on one
\* side and a non-Null value on the other, the difference at p.k is a single
\* Modification with both values; an Addition at p.k is returned only for a key
\* missing from old, a Deletion at p.k only for a key missing from new.
C20_NullIsPresent ==
  (pc # "input" /\ oldVal.k = "map" /\ newVal.k = "map" /\ ~changes.panicked)
  => /\ \A k \in DOMAIN oldVal.m \cap DOMAIN newVal.m :
          ((oldVal.m[k] = Nil) # (newVal.m[k] = Nil))
          => {c \in ChangeSet(changes) : c.Path = path \o S_dot \o k.s}
               = {Change("Modification", path \o S_dot \o k.s, oldVal.m[k], newVal.m[k])}
     /\ \A k \in DOMAIN oldVal.m \cup DOMAIN newVal.m :
          \A c \in ChangeSet(changes) :
            c.Path = path \o S_dot \o k.s
            => /\ c.Type = "Addition" => k \notin DOMAIN oldVal.m
               /\ c.Type = "Deletion" => k \notin DOMAIN newVal.m

\* The record latest in the sequence under each identifier.
LatestRecords(e) ==
  [id \in Identifiers(e) |->
     LET at == {j \in 1..Len(e) :
                  HasIdentifier(e[j].m) /\ RecordIdentifier(e[j].m) = id}
     IN e[CHOOSE j \in at : \A i \in at : i <= j]]

\* Two records of the sequence have the same identifier.
HasCollision(e) ==
  \E i, j \in 1..Len(e) :
    /\ i < j /\ HasIdentifier(e[i].m) /\ HasIdentifier(e[j].m)
    /\ RecordIdentifier(e[i].m) = RecordIdentifier(e[j].m)

\* C21: identifier collision policy: when records of one sequence share an
\* identifier, also one taken from different fields, the Record Matcher returns
\* without error, and its Changes are those of the records latest in sequence
\* order under each identifier: the earlier ones contribute nothing.
C21_CollisionPolicy ==
  (/\ pc # "input" /\ oldVal.k = "slice" /\ newVal.k = "slice"
   /\ SpecIdentifiable(oldVal.e) /\ SpecIdentifiable(newVal.e)
   /\ (HasCollision(oldVal.e) \/ HasCollision(newVal.e)))
  => /\ ~changes.panicked
     /\ ChangeSet(changes)
          = RecordChanges(LatestRecords(oldVal.e), LatestRecords(newVal.e), path)

\* C21 witness: {name: z} and {id: z} collide; only the later one, {id: z}, is
\* compared with the new record {id: z}, so nothing is reported.
C21_Witness ==
  /\ pc = "diffed"
  /\ oldVal = SliceV(<<RecNameZ, RecC>>) /\ newVal = SliceV(<<RecC>>)
  /\ changes = Returned(<<>>)

\* C23: completeness of diff: when diffValues returns no Change for two
\* canonical trees, the trees are structurally equal; no difference, also none
\* inside a record-sequence element without name, key or id, goes unreported.
C23_Completeness ==
  (pc # "input" /\ changes = Returned(<<>>)) => oldVal = newVal

\* A Change seen from the other side: Addition and Deletion exchanged,
\* Modification kept, the two values swapped, the Path kept.
Mirror(c) ==
  Change(CASE c.Type = "Addition" -> "Deletion"
           [] c.Type = "Deletion" -> "Addition"
           [] c.Type = "Modification" -> "Modification",
         c.Path, c.NewValue, c.OldValue)

\* C24: symmetry of diff: diffValues(b, a, p) returns the Changes of
\* diffValues(a, b, p) mirrored: Additions and Deletions exchanged, OldValue and
\* NewValue swapped, at the same Paths.
C24_Symmetry ==
  pc \in {"reversed", "done"}
  => /\ revChanges.panicked = changes.panicked
     /\ ChangeSet(revChanges) = {Mirror(c) : c \in ChangeSet(changes)}

(***************************************************************************)
(* Spec: a run of main.  A file is its name, the error reading or decoding *)
(* it ends with (empty: none), and the documents the decoder yields, each  *)
(* with the comments extractComments returns for it.                       *)
(***************************************************************************)
MaxDocs == 2

S_header ==
  <<45, 45, 45, 32, 35, 32, 89, 65, 77, 76, 32, 68, 111, 99, 117, 109, 101, 110,
    116, 58, 32>>
S_dashes == <<45, 45, 45>>
S_slash == <<47>>
S_usageError ==
  <<69, 114, 114, 111, 114, 58, 32, 69, 120, 112, 101, 99, 116, 101, 100, 32, 101,
    120, 97, 99, 116, 108, 121, 32, 50, 32, 89, 65, 77, 76, 32, 102, 105, 108, 101,
    115, 32, 116, 111, 32, 99, 111, 109, 112, 97, 114, 101, 10, 10>>
S_errorParsing == <<69, 114, 114, 111, 114, 32, 112, 97, 114, 115, 105, 110, 103, 32>>
\* the first line of the help text of printHelp
S_helpText ==
  <<121, 109, 108, 100, 105, 102, 102, 32, 45, 32, 65, 32, 115, 109, 97, 114, 116,
    32, 89, 65, 77, 76, 32, 100, 105, 102, 102, 32, 116, 111, 111, 108, 32, 119,
    105, 116, 104, 32, 115, 101, 109, 97, 110, 116, 105, 99, 32, 99, 111, 109, 112,
    97, 114, 105, 115, 111, 110, 10>>
S_yamlError == <<121, 97, 109, 108, 58, 32, 98, 97, 100>>
S_comment == <<35, 32, 99>>
S_fileA == <<97, 46, 121, 97, 109, 108>>
S_fileB == <<98, 46, 121, 97, 109, 108>>

YAMLDocument(data, comments) == [Data |-> data, Comments |-> comments]

\* The documents a file may hold, before normalization.
DocPool ==
  {YAMLDocument(Nil, <<>>), YAMLDocument(RecV, <<S_comment>>),
   YAMLDocument(Rec1(KeyV, StrV(S_1)), <<>>)}
FilesNamed(name) ==
  {[name |-> name, err |-> <<>>, docs |-> d] : d \in SeqsUpTo(DocPool, MaxDocs)}
    \cup {[name |-> name, err |-> S_yamlError, docs |-> <<>>]}

\* parseYAML: the error, a panic of normalizeValue, or the normalized documents
parseYAML(file) ==
  IF file.err # <<>> THEN [parsed |-> FALSE, panicked |-> FALSE, docs |-> <<>>]
  ELSE LET docs == [i \in 1..Len(file.docs) |->
                      YAMLDocument(normalizeValue(file.docs[i].Data),
                                   file.docs[i].Comments)]
       IN IF \E i \in 1..Len(file.docs) : docs[i].Data.k = "panic"
          THEN [parsed |-> FALSE, panicked |-> TRUE, docs |-> <<>>]
          ELSE [parsed |-> TRUE, panicked |-> FALSE, docs |-> docs]

\* Mutant of fatalMessage: the message names no file.
fatalMessageWithoutPath(file) == S_errorParsing \o S_colonSpace \o file.err \o S_nl

\* log.Fatalf("Error parsing %s: %v", file, err), without the time stamp
fatalMessage(file) == S_errorParsing \o file.name \o S_colonSpace \o file.err \o S_nl

Max(a, b) == IF a > b THEN a ELSE b
maxDocs == Max(Len(documents1.docs), Len(documents2.docs))

\* lines 639-652 for the Go index i
doc1Data(i) == IF i < Len(documents1.docs) THEN documents1.docs[i + 1].Data ELSE Nil
doc2Data(i) == IF i < Len(documents2.docs) THEN documents2.docs[i + 1].Data ELSE Nil
commentsOf(i) ==
  IF i < Len(documents2.docs) /\ Len(documents2.docs[i + 1].Comments) > 0
  THEN documents2.docs[i + 1].Comments
  ELSE IF i < Len(documents1.docs) THEN documents1.docs[i + 1].Comments
  ELSE <<>>

\* blue.Println / blue.Printf
bluePrint(text) == Sprint(FgBlue, text, colorNoColor)

\* lines 666-683: what one document with changes writes, one entry per call
documentOutput(i, cs) ==
  <<bluePrint(IF noDocComment THEN S_dashes \o S_nl
              ELSE S_header \o Itoa(i + 1) \o S_slash \o Itoa(maxDocs) \o S_nl)>>
    \o (IF disableComments THEN <<>>
        ELSE [j \in 1..Len(commentsOf(i)) |-> bluePrint(commentsOf(i)[j] \o S_nl)])
    \o <<generateColoredDiff(cs, colorNoColor), S_nl>>

Init ==
  /\ pc = "start"
  /\ cli \in [help : BOOLEAN, c : BOOLEAN, d : BOOLEAN, n : BOOLEAN, nargs : 1..3]
  /\ (cli.help \/ cli.nargs # 2) => (~cli.c /\ ~cli.d /\ ~cli.n)
  /\ cli.help => cli.nargs = 2
  /\ file1 \in IF ~cli.help /\ cli.nargs = 2 THEN FilesNamed(S_fileA) ELSE {NoFile}
  /\ file2 \in IF ~cli.help /\ cli.nargs = 2 THEN FilesNamed(S_fileB) ELSE {NoFile}
  /\ disableComments = FALSE /\ noDocComment = FALSE /\ noColor = FALSE
  /\ colorNoColor \in BOOLEAN
  /\ documents1 = NotParsed /\ documents2 = NotParsed /\ docIndex = 0
  /\ stdout = <<>> /\ stderr = <<>> /\ exitCode = -1
  /\ NormIdle /\ DiffIdle /\ RenderIdle

\* lines 591-594: --help
ShowHelp ==
  /\ pc = "start" /\ cli.help
  /\ stdout' = stdout \o <<S_helpText>>
  /\ exitCode' = 0
  /\ pc' = "exit"
  /\ UNCHANGED <<cli, file1, file2, disableComments, noDocComment, noColor,
                 colorNoColor, documents1, documents2, docIndex, stderr,
                 normVars, diffVars, renderVars>>

\* lines 596-612: the flags are stored, then the number of files is checked
UsageError ==
  /\ pc = "start" /\ ~cli.help /\ cli.nargs # 2
  /\ disableComments' = cli.c /\ noDocComment' = cli.d /\ noColor' = cli.n
  /\ colorNoColor' = (IF cli.n THEN TRUE ELSE colorNoColor)
  /\ stderr' = stderr \o <<S_usageError>>
  /\ stdout' = stdout \o <<S_helpText>>
  /\ exitCode' = 1
  /\ pc' = "exit"
  /\ UNCHANGED <<cli, file1, file2, documents1, documents2, docIndex,
                 normVars, diffVars, renderVars>>

\* lines 596-615: the flags are stored and the two files named
Start ==
  /\ pc = "start" /\ ~cli.help /\ cli.nargs = 2
  /\ disableComments' = cli.c /\ noDocComment' = cli.d /\ noColor' = cli.n
  /\ colorNoColor' = (IF cli.n THEN TRUE ELSE colorNoColor)
  /\ pc' = "parse1"
  /\ UNCHANGED <<cli, file1, file2, documents1, documents2, docIndex, stdout,
                 stderr, exitCode, normVars, diffVars, renderVars>>

\* lines 617-620
ParseFile1 ==
  /\ pc = "parse1"
  /\ LET r == parseYAML(file1)
     IN IF r.parsed
        THEN /\ documents1' = [parsed |-> TRUE, docs |-> r.docs]
             /\ pc' = "parse2"
             /\ UNCHANGED <<stderr, exitCode>>
        ELSE IF r.panicked
        THEN /\ pc' = "panic" /\ exitCode' = 2
             /\ UNCHANGED <<documents1, stderr>>
        ELSE /\ stderr' = stderr \o <<fatalMessage(file1)>>
             /\ exitCode' = 1
             /\ pc' = "exit"
             /\ UNCHANGED documents1
  /\ UNCHANGED <<cli, file1, file2, disableComments, noDocComment, noColor,
                 colorNoColor, documents2, docIndex, stdout, normVars, diffVars, renderVars>>

\* lines 622-625
ParseFile2 ==
  /\ pc = "parse2"
  /\ LET r == parseYAML(file2)
     IN IF r.parsed
        THEN /\ documents2' = [parsed |-> TRUE, docs |-> r.docs]
             /\ pc' = "loop"
             /\ UNCHANGED <<stderr, exitCode>>
        ELSE IF r.panicked
        THEN /\ pc' = "panic" /\ exitCode' = 2
             /\ UNCHANGED <<documents2, stderr>>
        ELSE /\ stderr' = stderr \o <<fatalMessage(file2)>>
             /\ exitCode' = 1
             /\ pc' = "exit"
             /\ UNCHANGED documents2
  /\ UNCHANGED <<cli, file1, file2, disableComments, noDocComment, noColor,
                 colorNoColor, documents1, docIndex, stdout, normVars, diffVars, renderVars>>

\* Mutant of CompareDocument: a document without changes is printed like any
\* other, with its header and the text of the empty collection.
CompareDocumentPrintsEmpty ==
  /\ pc = "loop" /\ docIndex < maxDocs
  /\ LET r == diffValues(doc1Data(docIndex), doc2Data(docIndex), S_empty)
     IN IF doc1Data(docIndex).k = "nil" /\ doc2Data(docIndex).k = "nil"
        THEN /\ docIndex' = docIndex + 1
             /\ UNCHANGED <<pc, stdout, exitCode>>
        ELSE IF r.panicked
        THEN /\ pc' = "panic" /\ exitCode' = 2
             /\ UNCHANGED <<docIndex, stdout>>
        ELSE /\ stdout' = stdout \o documentOutput(docIndex, r.changes)
             /\ docIndex' = docIndex + 1
             /\ UNCHANGED <<pc, exitCode>>
  /\ UNCHANGED <<cli, file1, file2, disableComments, noDocComment, noColor,
                 colorNoColor, documents1, documents2, stderr, normVars, diffVars, renderVars>>

\* lines 638-684: one iteration of the loop over the document indices
CompareDocument ==
  /\ pc = "loop" /\ docIndex < maxDocs
  /\ LET r == diffValues(doc1Data(docIndex), doc2Data(docIndex), S_empty)
     IN IF doc1Data(docIndex).k = "nil" /\ doc2Data(docIndex).k = "nil"
        THEN /\ docIndex' = docIndex + 1
             /\ UNCHANGED <<pc, stdout, exitCode>>
        ELSE IF r.panicked
        THEN /\ pc' = "panic" /\ exitCode' = 2
             /\ UNCHANGED <<docIndex, stdout>>
        ELSE IF Len(r.changes) = 0
        THEN /\ docIndex' = docIndex + 1
             /\ UNCHANGED <<pc, stdout, exitCode>>
        ELSE /\ stdout' = stdout \o documentOutput(docIndex, r.changes)
             /\ docIndex' = docIndex + 1
             /\ UNCHANGED <<pc, exitCode>>
  /\ UNCHANGED <<cli, file1, file2, disableComments, noDocComment, noColor,
                 colorNoColor, documents1, documents2, stderr, normVars, diffVars, renderVars>>

\* line 685: the loop is over and main returns
Finish ==
  /\ pc = "loop" /\ docIndex >= maxDocs
  /\ exitCode' = 0
  /\ pc' = "exit"
  /\ UNCHANGED <<cli, file1, file2, disableComments, noDocComment, noColor,
                 colorNoColor, documents1, documents2, docIndex, stdout, stderr,
                 normVars, diffVars, renderVars>>

Next ==
  ShowHelp \/ UsageError \/ Start \/ ParseFile1 \/ ParseFile2 \/ CompareDocument
    \/ Finish
Spec == Init /\ [][Next]_vars

\* concatenation of the texts written
RECURSIVE Flatten(_)
Flatten(chunks) ==
  IF Len(chunks) = 0 THEN <<>> ELSE chunks[1] \o Flatten(Tail(chunks))

\* No compared pair of documents has a change.
NoDocumentChanged ==
  \A i \in 0..(maxDocs - 1) :
    \/ doc1Data(i).k = "nil" /\ doc2Data(i).k = "nil"
    \/ diffValues(doc1Data(i), doc2Data(i), S_empty) = Returned(<<>>)

\* C10: whole-run empty result: when both files parse and no pair of documents
\* has a change, the run writes the line "No changes found." and nothing else.
C10_NoChangesLine ==
  (/\ pc = "exit" /\ documents1.parsed /\ documents2.parsed
   /\ NoDocumentChanged)
  => Flatten(stdout) = S_NoChanges

\* text contains sub as a substring
Contains(text, sub) ==
  \E i \in 0..(Len(text) - Len(sub)) : SubSeq(text, i + 1, i + Len(sub)) = sub

\* The document at Go index i is skipped: both sides nil, or no change.
Omitted(i) ==
  \/ doc1Data(i).k = "nil" /\ doc2Data(i).k = "nil"
  \/ diffValues(doc1Data(i), doc2Data(i), S_empty) = Returned(<<>>)

\* C11: per-document omission: an iteration of the driver loop over an index whose
\* two documents are both absent or whose diff is empty writes nothing, and an
\* iteration that writes anything has a non-empty Change collection and writes
\* the header line first.
C11_PerDocumentOmission ==
  [][(pc = "loop" /\ docIndex < maxDocs)
       => /\ Omitted(docIndex) => (stdout' = stdout /\ stderr' = stderr)
          /\ stdout' # stdout
               => /\ ~Omitted(docIndex)
                  /\ Len(diffValues(doc1Data(docIndex), doc2Data(docIndex),
                                    S_empty).changes) > 0
                  /\ Len(stdout') > Len(stdout)
                  /\ Contains(stdout'[Len(stdout) + 1], S_dashes)]_vars

\* C11 witness: the first index was omitted and the second one printed: the only
\* header written is that of document 2/2.
C11_Witness ==
  /\ pc = "exit" /\ docIndex = 2 /\ maxDocs = 2
  /\ Omitted(0) /\ ~Omitted(1)
  /\ doc1Data(0).k # "nil"
  /\ ~noDocComment
  /\ Len(stdout) > 0
  /\ Contains(stdout[1], S_header \o Itoa(2) \o S_slash \o Itoa(2))
  /\ \A j \in 2..Len(stdout) : ~Contains(stdout[j], S_dashes)

\* The first file whose parsing fails, in the order main parses them.
FailedFile == IF file1.err # <<>> THEN file1 ELSE file2

\* C12: no partial output on parse failure: when parseYAML fails for one of the
\* two files, the run ends with exit status 1, its error output names that file
\* and the parse error, and nothing was written to the standard output; in every
\* state with output of a comparison both files have parsed.
C12_NoPartialOutput ==
  /\ (pc = "exit" /\ ~cli.help /\ cli.nargs = 2
         /\ (file1.err # <<>> \/ file2.err # <<>>))
       => /\ exitCode = 1
          /\ stdout = <<>>
          /\ Len(stderr) = 1
          /\ Contains(stderr[1], FailedFile.name)
          /\ Contains(stderr[1], FailedFile.err)
  /\ (~cli.help /\ cli.nargs = 2 /\ stdout # <<>>)
       => (documents1.parsed /\ documents2.parsed)

\* C12 witness: the first file parsed to documents, the second failed.
C12_Witness ==
  /\ pc = "exit" /\ documents1.parsed /\ Len(documents1.docs) > 0
  /\ file1.docs[1].Data.k # "nil"
  /\ file2.err # <<>> /\ exitCode = 1 /\ stdout = <<>> /\ Len(stderr) = 1

(***************************************************************************)
(* SpecRender: generateColoredDiff applied to a Change collection, once    *)
(* with colour enabled and once with color.NoColor set.                   *)
(***************************************************************************)
MaxChanges == 2

\* a string value that itself holds an escape sequence
S_escRed == S_esc \o Itoa(FgRed) \o S_m \o S_z
RenderPaths == {S_dot \o S_v, S_dot \o S_v \o S_dot \o S_v, S_open \o Itoa(0) \o S_close}
RenderShapes ==
  {<<"Addition", Nil, IntV(1)>>, <<"Addition", Nil, RecB>>,
   <<"Deletion", StrV(S_z), Nil>>, <<"Deletion", RecB, Nil>>,
   <<"Deletion", StrV(S_escRed), Nil>>,
   <<"Modification", StrV(S_z), StrV(S_1)>>, <<"Modification", IntV(1), StrV(S_z)>>,
   <<"Modification", RecB, IntV(1)>>}
RenderChanges == {Change(sh[1], p, sh[2], sh[3]) : sh \in RenderShapes, p \in RenderPaths}

InitRender ==
  /\ pc = "collected"
  /\ entries \in SeqsUpTo(RenderChanges, MaxChanges)
  /\ coloredText = <<>> /\ plainText = <<>>
  /\ reordered = <<>> /\ reorderedText = <<>>
  /\ NormIdle /\ DiffIdle /\ MainIdle

\* generateColoredDiff(changes) with color.NoColor false
RenderColored ==
  /\ pc = "collected"
  /\ coloredText' = generateColoredDiff(entries, FALSE)
  /\ pc' = "colored"
  /\ UNCHANGED <<entries, plainText, reordered, reorderedText, normVars, diffVars,
                 mainVars>>

\* generateColoredDiff(changes) with color.NoColor true
RenderPlain ==
  /\ pc = "colored"
  /\ plainText' = generateColoredDiff(entries, TRUE)
  /\ pc' = "rendered"
  /\ UNCHANGED <<entries, coloredText, reordered, reorderedText, normVars, diffVars,
                 mainVars>>

\* generateColoredDiff on the same Changes, collected in another order
RenderReordered ==
  /\ pc = "rendered"
  /\ \E p \in Perms(entries) :
       /\ reordered' = p
       /\ reorderedText' = generateColoredDiff(p, TRUE)
  /\ pc' = "reordered"
  /\ UNCHANGED <<entries, coloredText, plainText, normVars, diffVars, mainVars>>

NextRender == RenderColored \/ RenderPlain \/ RenderReordered
SpecRender == InitRender /\ [][NextRender]_vars

\* C13: for an empty Change collection generateColoredDiff returns exactly the
\* text "No changes found.\n", with or without colour, and no marker line.
C13_EmptyCollection ==
  (pc = "rendered" /\ Len(entries) = 0)
  => /\ coloredText = S_NoChanges /\ plainText = S_NoChanges
     /\ \A mk \in {S_plus, S_dash, S_tilde} :
          ~Contains(coloredText, mk) /\ ~Contains(plainText, mk)

C13_Witness == pc = "rendered" /\ Len(entries) = 0 /\ Len(plainText) = 18

\* The paths of the sequence are in non-decreasing byte-wise order.
PathSorted(cs) ==
  \A i \in 1..(Len(cs) - 1) : ~StrLess(cs[i + 1].Path, cs[i].Path)

\* C14: output ordering: for a non-empty collection in any order the returned
\* text is the entries of the input Changes, each exactly once, in an order of
\* non-decreasing Path.
C14_OutputOrdering ==
  (pc = "rendered" /\ Len(entries) > 0)
  => \E p \in Perms(entries) :
       /\ PathSorted(p)
       /\ plainText = renderAll(p, TRUE)
       /\ coloredText = renderAll(p, FALSE)

\* C14 witness: a collection given against the order of its paths.
C14_Witness ==
  /\ pc = "rendered" /\ Len(entries) = 2
  /\ StrLess(entries[2].Path, entries[1].Path)
  /\ plainText = renderAll(<<entries[2], entries[1]>>, TRUE)

\* text holds the byte ESC
HasEscape(text) == \E i \in 1..Len(text) : text[i] = 27

\* text without its colour escape sequences ESC [ ... m
RECURSIVE StripColor(_)
StripColor(text) ==
  LET starts == {i \in 1..(Len(text) - 1) : text[i] = 27 /\ text[i + 1] = 91}
  IN IF starts = {} THEN text
     ELSE LET i == CHOOSE x \in starts : \A y \in starts : x <= y
              ends == {k \in (i + 2)..Len(text) : text[k] = 109}
          IN IF ends = {} THEN SubSeq(text, 1, i - 1)
             ELSE LET k == CHOOSE x \in ends : \A y \in ends : x <= y
                  IN SubSeq(text, 1, i - 1) \o StripColor(SubSeq(text, k + 1, Len(text)))

\* the marker of a kind of Change
Marker(type) ==
  CASE type = "Addition" -> S_plus
    [] type = "Deletion" -> S_dash
    [] type = "Modification" -> S_tilde

\* the values of a Change that its entry shows
ShownValues(c) ==
  CASE c.Type = "Addition" -> {c.NewValue}
    [] c.Type = "Deletion" -> {c.OldValue}
    [] c.Type = "Modification" -> {c.OldValue, c.NewValue}

\* text shows the marker and path of every Change and every line of its values
ShowsEntries(text, cs) ==
  \A i \in 1..Len(cs) :
    /\ Contains(text, Marker(cs[i].Type) \o cs[i].Path \o S_colonSpace)
    /\ \A v \in ShownValues(cs[i]) :
         LET lines == SplitLines(formatValue(v), <<>>)
         IN \A j \in 1..Len(lines) : Contains(text, lines[j])

\* no path and no formatted value of the collection holds the byte ESC
EscapeFree(cs) ==
  \A i \in 1..Len(cs) :
    /\ ~HasEscape(cs[i].Path)
    /\ ~HasEscape(formatValue(cs[i].OldValue))
    /\ ~HasEscape(formatValue(cs[i].NewValue))

\* C15 as stated: for every Change collection the text rendered with colour
\* disabled holds no escape sequence, shows the markers, paths and values, and is
\* the coloured text with its colour escape sequences removed.
C15_ColourNonInterference ==
  pc = "rendered"
  => /\ ~HasEscape(plainText)
     /\ ShowsEntries(plainText, entries)
     /\ plainText = StripColor(coloredText)

\* C15 amended: the same for every Change collection whose paths and values
\* hold no escape byte themselves.
C15_ColourNonInterferenceEscapeFree ==
  (pc = "rendered" /\ EscapeFree(entries))
  => /\ ~HasEscape(plainText)
     /\ ShowsEntries(plainText, entries)
     /\ plainText = StripColor(coloredText)

\* C15 witness: a string Modification and a multi-line Addition, coloured and plain
C15_Witness ==
  /\ pc = "rendered" /\ EscapeFree(entries) /\ Len(entries) = 2
  /\ entries[1].Type = "Modification" /\ isStringValue(entries[1].OldValue)
  /\ entries[2].Type = "Addition" /\ entries[2].NewValue = RecB
  /\ HasEscape(coloredText) /\ ~HasEscape(plainText)
  /\ Len(plainText) < Len(coloredText)

\* C22: rendering determinism: a Change collection and every reordering of it,
\* also with two Changes at one Path, are rendered to the same text.
C22_RenderingDeterminism ==
  pc = "reordered" => reorderedText = plainText

====
